---------------------------- MODULE Spec2Model ----------------------------
(***************************************************************************)
(* A model of the ray tracer: the geometry of src/src/lib.rs (intersect,   *)
(* get_closest_object, Camera::get_ray, ray_trace), the inline integrator  *)
(* of src/src/bin/main.rs, and the frame loop of main().                   *)
(*                                                                         *)
(* Three specifications share the module:                                  *)
(*   SpecProbe  applies intersect and get_closest_object to rays and       *)
(*              object lists drawn from bounded sets;                      *)
(*   SpecTrace  runs ray_trace (either copy) as a machine with an explicit *)
(*              call stack, the random draws chosen nondeterministically;  *)
(*   Spec       is the frame loop of main(): events, update, the parallel  *)
(*              trace phase with one unit of work per pixel, presentation. *)
(*                                                                         *)
(* Numbers.  An f32 of the geometry is a fixed-point integer: Scale units  *)
(* make 1.0, and every multiplication, division and square root rounds to  *)
(* the grid, as every f32 operation rounds.  The accumulator of the frame  *)
(* loop is kept as an exact fraction instead, because the running-average  *)
(* law is a statement about exact arithmetic.                              *)
(***************************************************************************)
EXTENDS Integers, Sequences, FiniteSets

VARIABLES
    \* ---- SpecProbe
    p_ray,        \* the ray handed to the function under test
    p_objects,    \* the object slice
    p_index,      \* the object intersect is applied to
    p_op,         \* "none", "intersect", "closest", "closest_main"
    p_result,     \* what the call returned
    \* ---- SpecTrace
    t_variant,    \* "lib": lib.rs ray_trace; "main": the copy inside main()
    t_objects,    \* the object slice given to ray_trace
    t_input,      \* what the primary ray is built from
    t_depth,      \* the depth of the primary call
    t_stack,      \* the activation records of ray_trace, outermost first
    t_result,     \* None until the primary call has returned
    t_last,       \* the activation that returned last (with what it did)
    t_calls,      \* calls of ray_trace so far
    t_leaves,     \* calls that returned without recursing
    \* ---- Spec (frame loop)
    pc,                     \* where main() is
    surface_size,           \* renderer.get_surface_mut().get_size()
    pixels,                 \* the accumulator Vec
    frames_since_movement,
    camera_position,
    objects,                \* the scene array of main()
    units,                  \* units of work of the running for_each
    done,                   \* the units whose closure has returned
    presented,              \* the last set_pixels: how much of the buffer was finished
    frame,                  \* frames started so far
    h_estimates,            \* per cell: the estimates since the last reset frame
    h_access,               \* per cell: the units that touched it this frame
    h_changed,              \* a reset cause was seen in this frame's pre-frame phase
    h_prev,                 \* frames_since_movement during the previous trace phase
    h_polled                \* events handled so far at the top of this frame

probe_vars == <<p_ray, p_objects, p_index, p_op, p_result>>
trace_vars == <<t_variant, t_objects, t_input, t_depth, t_stack, t_result,
                t_last, t_calls, t_leaves>>
loop_vars  == <<pc, surface_size, pixels, frames_since_movement, camera_position,
                objects, units, done, presented, frame, h_estimates, h_access,
                h_changed, h_prev, h_polled>>
vars == <<probe_vars, trace_vars, loop_vars>>

-----------------------------------------------------------------------------
(* Option<T> *)
None == <<>>
Some(v) == <<v>>
IsSome(o) == Len(o) = 1
Unwrap(o) == o[1]

-----------------------------------------------------------------------------
(* f32 as fixed point *)

\* units per 1.0; chosen so that the smallest literal of the program, the
\* 0.001 offset of a bounce ray's origin, is exactly one unit
Scale == 1000

Abs(a) == IF a < 0 THEN -a ELSE a

\* n / d rounded to the nearest grid point (d # 0)
RoundDiv(n, d) ==
    IF d > 0 THEN (2 * n + d) \div (2 * d)
             ELSE (2 * (-n) + (-d)) \div (2 * (-d))

FMul(a, b) == RoundDiv(a * b, Scale)
FDiv(a, b) == RoundDiv(a * Scale, b)

RECURSIVE SqrtSearch(_, _, _)
\* the largest r in lo..hi with r*r <= n
SqrtSearch(n, lo, hi) ==
    IF lo >= hi THEN lo
    ELSE LET mid == (lo + hi + 1) \div 2
         IN  IF mid * mid <= n THEN SqrtSearch(n, mid, hi)
                                ELSE SqrtSearch(n, lo, mid - 1)

\* f32::sqrt of a non-negative number
FSqrt(a) == SqrtSearch(a * Scale, 0, IF a * Scale < 46340 THEN a * Scale ELSE 46340)

\* f32::signum: 1.0 for a positive number and for +0.0, -1.0 for a negative one
signum(a) == IF a < 0 THEN -Scale ELSE Scale

-----------------------------------------------------------------------------
(* Vector3<f32> *)

Vec(x, y, z) == <<x, y, z>>
Zero == <<0, 0, 0>>
VAdd(a, b) == <<a[1] + b[1], a[2] + b[2], a[3] + b[3]>>
VSub(a, b) == <<a[1] - b[1], a[2] - b[2], a[3] - b[3]>>
\* v * s.into(): every component times the scalar
VScale(v, s) == <<FMul(v[1], s), FMul(v[2], s), FMul(v[3], s)>>
\* the componentwise product of two vectors
VMul(a, b) == <<FMul(a[1], b[1]), FMul(a[2], b[2]), FMul(a[3], b[3])>>
dot(a, b) == FMul(a[1], b[1]) + FMul(a[2], b[2]) + FMul(a[3], b[3])
sqr_length(a) == dot(a, a)
length(a) == FSqrt(sqr_length(a))
normalized(a) ==
    LET l == length(a) IN <<FDiv(a[1], l), FDiv(a[2], l), FDiv(a[3], l)>>
\* the mirror image of the direction d about the normal n
reflect(d, n) == VSub(d, VScale(n, 2 * dot(d, n)))

Ray(o, d) == [origin |-> o, direction |-> d]
Material(dc, ec, k) == [diffuse_color |-> dc, emit_color |-> ec, reflectiveness |-> k]
Hit(p, n, t) == [position |-> p, normal |-> n, distance |-> t]
Sphere(c, r, m) == [kind |-> "Sphere", center |-> c, radius |-> r, material |-> m]
Plane(n, d, m) ==
    [kind |-> "Plane", normal |-> n, distance_along_normal |-> d, material |-> m]

get_material(self) == self.material

-----------------------------------------------------------------------------
(* Object::intersect *)

intersect_sphere(self, ray) ==
    LET oc == VSub(ray.origin, self.center)
        a == sqr_length(ray.direction)
        half_b == dot(oc, ray.direction)
        c == sqr_length(oc) - FMul(self.radius, self.radius)
        discriminant == FMul(half_b, half_b) - FMul(a, c)
    IN  IF discriminant < 0 THEN None
        ELSE LET distance == FDiv(-half_b - FSqrt(discriminant), a)
             IN  IF distance <= 0 THEN None
                 ELSE LET position == VAdd(ray.origin, VScale(ray.direction, distance))
                          normal == VScale(VSub(position, self.center),
                                           FDiv(Scale, self.radius))
                      IN  Some(Hit(position, normal, distance))

intersect_plane(self, ray) ==
    LET vd == dot(self.normal, ray.direction)
    IN  IF vd >= 0 THEN None
        ELSE LET vo == -(dot(self.normal, ray.origin) + self.distance_along_normal)
                 distance == FDiv(vo, vd)
             IN  IF distance <= 0 THEN None
                 ELSE Some(Hit(VAdd(ray.origin, VScale(ray.direction, distance)),
                               self.normal, distance))

\* a plane that rejects only the parallel ray (the two-sided variant the source
\* comment names)
intersect_plane_two_sided(self, ray) ==
    LET vd == dot(self.normal, ray.direction)
    IN  IF vd = 0 THEN None
        ELSE LET vo == -(dot(self.normal, ray.origin) + self.distance_along_normal)
                 distance == FDiv(vo, vd)
             IN  IF distance <= 0 THEN None
                 ELSE Some(Hit(VAdd(ray.origin, VScale(ray.direction, distance)),
                               self.normal, distance))

intersect_two_sided(self, ray) ==
    IF self.kind = "Sphere" THEN intersect_sphere(self, ray)
                            ELSE intersect_plane_two_sided(self, ray)

intersect(self, ray) ==
    IF self.kind = "Sphere" THEN intersect_sphere(self, ray)
                            ELSE intersect_plane(self, ray)

-----------------------------------------------------------------------------
(* get_closest_object: the fold over objects.iter().enumerate().  A hit is  *)
(* carried as the pair <<hit, index>>.                                      *)

\* the closure with <= : the accumulator also survives a tie
closest_step_first_wins(hit, new_hit) ==
    IF IsSome(hit) /\ IsSome(new_hit)
    THEN IF Unwrap(hit)[1].distance <= Unwrap(new_hit)[1].distance
         THEN hit ELSE new_hit
    ELSE IF IsSome(hit) THEN hit ELSE new_hit

\* the closure with the comparison turned round: the farther hit survives
closest_step_farthest(hit, new_hit) ==
    IF IsSome(hit) /\ IsSome(new_hit)
    THEN IF Unwrap(hit)[1].distance > Unwrap(new_hit)[1].distance
         THEN hit ELSE new_hit
    ELSE IF IsSome(hit) THEN hit ELSE new_hit

\* the fold's closure of lib.rs: one step, from the accumulator `hit` and the
\* candidate `new_hit`
closest_step(hit, new_hit) ==
    IF IsSome(hit) /\ IsSome(new_hit)
    THEN IF Unwrap(hit)[1].distance < Unwrap(new_hit)[1].distance
         THEN hit ELSE new_hit
    ELSE IF IsSome(hit) THEN hit ELSE new_hit

RECURSIVE closest_fold(_, _, _, _)
closest_fold(ray, objs, index, hit) ==
    IF index > Len(objs) THEN hit
    ELSE LET o == intersect(objs[index], ray)
             new_hit == IF IsSome(o) THEN Some(<<Unwrap(o), index>>) ELSE None
         IN  closest_fold(ray, objs, index + 1, closest_step(hit, new_hit))

\* lib.rs: Option<(Hit, usize)>; the index counts from 1 here, from 0 in Rust
get_closest_object(ray, objs) == closest_fold(ray, objs, 1, None)

\* the closure of the copy inside main()
main_closest_step(hit, new_hit) ==
    IF IsSome(hit) /\ IsSome(new_hit)
    THEN IF Unwrap(hit)[1].distance < Unwrap(new_hit)[1].distance
         THEN hit ELSE new_hit
    ELSE IF IsSome(hit) THEN hit ELSE new_hit

RECURSIVE main_closest_fold(_, _, _, _)
main_closest_fold(ray, objs, index, hit) ==
    IF index > Len(objs) THEN hit
    ELSE LET o == intersect(objs[index], ray)
             new_hit == IF IsSome(o) THEN Some(<<Unwrap(o), index>>) ELSE None
         IN  main_closest_fold(ray, objs, index + 1, main_closest_step(hit, new_hit))

\* main.rs: Option<Hit>, the hit carrying its object's material; the pair's
\* index stands for that material
main_get_closest_object(ray, objs) == main_closest_fold(ray, objs, 1, None)

-----------------------------------------------------------------------------
(* The scene of main() and further objects for the probes *)

\* main.rs: the ground plane y = 0
Ground == Plane(Vec(0, 1000, 0), 0, Material(Vec(200, 800, 300), Zero, 0))
\* main.rs: the unit sphere resting on it
Ball == Sphere(Vec(0, 1000, 0), 1000, Material(Vec(800, 300, 200), Zero, 0))
\* a sphere behind Ball on the camera's axis: hit at distance 5 where Ball is hit at 2
FarBall == Sphere(Vec(0, 1000, 3000), 1000, Material(Vec(300, 300, 800), Zero, 500))
\* the plane z = -1 facing the camera: it touches Ball where the central ray does
Wall == Plane(Vec(0, 0, -1000), -1000, Material(Vec(500, 500, 500), Zero, 0))
\* an emitting mirror plane y = 3 facing down
Ceiling == Plane(Vec(0, -1000, 0), 3000,
                 Material(Vec(900, 900, 900), Vec(1000, 1000, 1000), 1000))

main_objects == <<Ground, Ball>>
main_camera_position == Vec(0, 1000, -3000)
camera_right == Vec(1000, 0, 0)
camera_up == Vec(0, 1000, 0)
camera_forward == Vec(0, 0, 1000)

-----------------------------------------------------------------------------
(* SpecProbe: intersect and get_closest_object on bounded inputs *)

\* longest object slice probed
MaxObjects == 3

ObjectPool == {Ground, Ball, FarBall, Wall, Ceiling}

RECURSIVE SeqsUpTo(_, _)
SeqsUpTo(S, n) ==
    IF n = 0 THEN {<<>>}
    ELSE LET shorter == SeqsUpTo(S, n - 1)
         IN  shorter \cup {Append(s, e) : s \in {q \in shorter : Len(q) = n - 1}, e \in S}

ProbeRays ==
    { Ray(main_camera_position, Vec(0, 0, 1000)),     \* the central camera ray
      Ray(main_camera_position, Vec(0, 0, 500)),      \* the same, half as long
      Ray(main_camera_position, Vec(0, 0, -1000)),    \* away from the scene
      Ray(main_camera_position, Vec(1000, 0, 0)),     \* parallel to Ground and Wall
      Ray(main_camera_position, Vec(0, -600, 800)),   \* down to the ground
      Ray(Vec(0, 5000, 0), Vec(0, -1000, 0)),         \* straight down from y = 5
      Ray(Vec(0, -2000, 0), Vec(0, 1000, 0)),         \* up, from under the ground
      Ray(Vec(0, 1000, 0), Vec(0, 0, 1000)) }         \* from inside Ball

ProbeParked ==
    /\ p_ray = Ray(Zero, Zero) /\ p_objects = <<>> /\ p_index = 0
    /\ p_op = "parked" /\ p_result = None

ProbeInit ==
    /\ p_ray \in ProbeRays
    /\ p_objects \in SeqsUpTo(ObjectPool, MaxObjects)
    /\ p_index = 0
    /\ p_op = "none"
    /\ p_result = None

ProbeIntersect ==
    /\ p_op = "none"
    /\ \E i \in 1..Len(p_objects) :
          /\ p_index' = i
          /\ p_result' = intersect(p_objects[i], p_ray)
    /\ p_op' = "intersect"
    /\ UNCHANGED <<p_ray, p_objects, trace_vars, loop_vars>>

ProbeClosest ==
    /\ p_op = "none"
    /\ p_result' = get_closest_object(p_ray, p_objects)
    /\ p_op' = "closest"
    /\ UNCHANGED <<p_ray, p_objects, p_index, trace_vars, loop_vars>>

ProbeClosestMain ==
    /\ p_op = "none"
    /\ p_result' = main_get_closest_object(p_ray, p_objects)
    /\ p_op' = "closest_main"
    /\ UNCHANGED <<p_ray, p_objects, p_index, trace_vars, loop_vars>>

ProbeNext ==
    \/ ProbeIntersect
    \/ ProbeClosest
    \/ ProbeClosestMain

-----------------------------------------------------------------------------
(* Camera and the integrator *)

SAMPLES_PER_BOUNCE == 2
BOUNCES == 5
DAY == FALSE

\* Camera::get_uv
get_uv(x, y, width, height) ==
    <<FDiv(x * Scale, width * Scale), FDiv(y * Scale, height * Scale)>>

\* the direction of Camera::get_ray before .normalized()
get_ray_direction(right, up, forward, uv, aspect) ==
    VAdd(VAdd(VScale(right, FMul(2 * uv[1] - Scale, aspect)),
              VScale(up, 2 * uv[2] - Scale)),
         forward)

\* get_ray without the call of normalized()
get_ray_unnormalized(position, right, up, forward, uv, aspect) ==
    Ray(position, get_ray_direction(right, up, forward, uv, aspect))

\* Camera::get_ray
get_ray(position, right, up, forward, uv, aspect) ==
    Ray(position, normalized(get_ray_direction(right, up, forward, uv, aspect)))

\* main(): the jittered uv of one camera sample; jx and jy are the two
\* rng.gen::<f32>() draws, in [0, 1)
main_uv(x, y, width, height, jx, jy) ==
    <<FDiv(x * Scale + 2 * jx - Scale, width * Scale),
      FDiv(y * Scale + 2 * jy - Scale, height * Scale)>>

\* main(): the camera ray of one sample
main_primary_ray(position, uv, aspect) ==
    Ray(position,
        normalized(VAdd(VAdd(VScale(camera_right, FMul(2 * uv[1] - Scale, aspect)),
                             VScale(camera_up, 2 * uv[2] - Scale)),
                        camera_forward)))

\* the sky gradient between (1, 1, 1) and (0.5, 0.7, 1)
sky(ray) ==
    LET t == FMul(ray.direction[2], 500) + 500
    IN  VAdd(VScale(Vec(1000, 1000, 1000), Scale - t), VScale(Vec(500, 700, 1000), t))

\* what a miss returns when the flag is ignored and the sky is always drawn
background_always_sky(ray) == sky(ray)

\* lib.rs ray_trace: what a miss returns
background(ray) == IF DAY THEN sky(ray) ELSE Vec(100, 100, 100)

\* main.rs ray_trace: what a miss returns
main_background(ray) == sky(ray)

\* random_in_direction; gen holds the three rng.gen::<f32>() draws
random_in_direction(gen, direction) ==
    LET random == Vec(2 * gen[1] - Scale, 2 * gen[2] - Scale, 2 * gen[3] - Scale)
    IN  VScale(random, signum(dot(random, direction)))

\* the direction of a bounce ray
bounce_direction(gen, direction, reflectiveness) ==
    VAdd(VScale(random_in_direction(gen, direction), Scale - reflectiveness),
         VScale(direction, reflectiveness))

\* the origin of a bounce ray: hit.position + hit.normal * 0.001
bounce_origin(hit) == VAdd(hit.position, VScale(hit.normal, 1))

\* a recursion that passes its own depth on
child_depth_same(depth) == depth

\* the depth handed to a recursive call
child_depth(depth) == depth - 1

\* what a hit returns once its samples are summed in in_color
shade(material, in_color) ==
    VAdd(material.emit_color,
         VMul(material.diffuse_color,
              VScale(in_color, FDiv(Scale, SAMPLES_PER_BOUNCE * Scale))))

-----------------------------------------------------------------------------
(* SpecTrace: ray_trace as a machine.  An activation is "entry" before its  *)
(* first statement and "loop" inside the for loop over the samples.         *)

\* largest depth of a primary call
MaxDepth == 3

TraceScenes == {<<>>, main_objects, <<Ground, Ceiling>>}

\* the pixel a primary ray is cast through, with the jitter draws of main()
TraceInputs ==
    { [x |-> 1, y |-> 1, width |-> 2, height |-> 2, jx |-> 500, jy |-> 500],
      [x |-> 1, y |-> 0, width |-> 2, height |-> 2, jx |-> 500, jy |-> 500],
      [x |-> 0, y |-> 1, width |-> 2, height |-> 2, jx |-> 500, jy |-> 500],
      [x |-> 2, y |-> 1, width |-> 4, height |-> 2, jx |-> 0, jy |-> 0] }

\* the rng.gen::<f32>() triples a bounce may draw
Gens == { <<0, 0, 0>>, <<500, 750, 500>>, <<750, 500, 500>> }

Activation(ray, depth) ==
    [ray |-> ray, depth |-> depth, at |-> "entry", hit |-> None, direction |-> Zero,
     i |-> 0, in_color |-> Zero, children |-> 0, intersected |-> FALSE]

TraceParked ==
    /\ t_variant = "parked" /\ t_objects = <<>> /\ t_input = <<>> /\ t_depth = 0
    /\ t_stack = <<>> /\ t_result = None /\ t_last = None
    /\ t_calls = 0 /\ t_leaves = 0

TraceInit ==
    /\ t_variant \in {"lib", "main"}
    /\ t_objects \in TraceScenes
    /\ t_input \in TraceInputs
    /\ t_depth \in 0..MaxDepth
    /\ t_stack = <<>>
    /\ t_result = None
    /\ t_last = None
    /\ t_calls = 0
    /\ t_leaves = 0

Top == t_stack[Len(t_stack)]
SetTop(a) == [t_stack EXCEPT ![Len(t_stack)] = a]
Pop == SubSeq(t_stack, 1, Len(t_stack) - 1)

\* the primary ray of the call under test
PrimaryRay ==
    LET in == t_input
        aspect == FDiv(in.width * Scale, in.height * Scale)
    IN  IF t_variant = "lib"
        THEN get_ray(main_camera_position, camera_right, camera_up, camera_forward,
                     get_uv(in.x, in.y, in.width, in.height), aspect)
        ELSE main_primary_ray(main_camera_position,
                              main_uv(in.x, in.y, in.width, in.height, in.jx, in.jy),
                              aspect)

\* the caller builds the primary ray and calls ray_trace(ray, objects, rng, depth)
TraceCast ==
    /\ t_calls = 0
    /\ t_stack' = <<Activation(PrimaryRay, t_depth)>>
    /\ t_calls' = 1
    /\ UNCHANGED <<t_variant, t_objects, t_input, t_depth, t_result, t_last, t_leaves,
                   probe_vars, loop_vars>>

\* `return value` of the top activation: the value goes to the caller's
\* in_color +=, or is the result of the primary call
Return(value, hit, intersected) ==
    /\ t_last' = Some([depth |-> Top.depth, hit |-> hit, intersected |-> intersected,
                       children |-> Top.children, value |-> value, ray |-> Top.ray])
    /\ t_leaves' = IF Top.children = 0 THEN t_leaves + 1 ELSE t_leaves
    /\ IF Len(t_stack) = 1
       THEN /\ t_stack' = <<>>
            /\ t_result' = Some(value)
       ELSE /\ t_stack' = [Pop EXCEPT ![Len(t_stack) - 1].in_color =
                                          VAdd(@, value)]
            /\ t_result' = t_result
    /\ UNCHANGED <<t_variant, t_objects, t_input, t_depth, t_calls,
                   probe_vars, loop_vars>>

\* if depth == 0 { return Vector3::zero(); }
TraceFloor ==
    /\ t_stack # <<>> /\ Top.at = "entry"
    /\ Top.depth = 0
    /\ Return(Zero, FALSE, FALSE)

ClosestOf(ray) ==
    IF t_variant = "lib" THEN get_closest_object(ray, t_objects)
                         ELSE main_get_closest_object(ray, t_objects)

\* get_closest_object found nothing: the else branch
TraceMiss ==
    /\ t_stack # <<>> /\ Top.at = "entry"
    /\ Top.depth # 0
    /\ ClosestOf(Top.ray) = None
    /\ Return(IF t_variant = "lib" THEN background(Top.ray)
                                   ELSE main_background(Top.ray), FALSE, TRUE)

\* get_closest_object found a hit: up to the head of the for loop
TraceHit ==
    /\ t_stack # <<>> /\ Top.at = "entry"
    /\ Top.depth # 0
    /\ LET found == ClosestOf(Top.ray)
       IN  /\ IsSome(found)
           /\ t_stack' = SetTop([Top EXCEPT
                  !.at = "loop",
                  !.hit = found,
                  !.direction = reflect(Top.ray.direction, Unwrap(found)[1].normal),
                  !.intersected = TRUE])
    /\ UNCHANGED <<t_variant, t_objects, t_input, t_depth, t_result, t_last,
                   t_calls, t_leaves, probe_vars, loop_vars>>

\* one turn of the for loop, up to the recursive call
TraceSample ==
    /\ t_stack # <<>> /\ Top.at = "loop"
    /\ Top.i < SAMPLES_PER_BOUNCE
    /\ \E gen \in Gens :
          LET hit == Unwrap(Top.hit)[1]
              material == get_material(t_objects[Unwrap(Top.hit)[2]])
              ray == Ray(bounce_origin(hit),
                         bounce_direction(gen, Top.direction, material.reflectiveness))
          IN  t_stack' = Append(SetTop([Top EXCEPT !.i = @ + 1, !.children = @ + 1]),
                                Activation(ray, child_depth(Top.depth)))
    /\ t_calls' = t_calls + 1
    /\ UNCHANGED <<t_variant, t_objects, t_input, t_depth, t_result, t_last, t_leaves,
                   probe_vars, loop_vars>>

\* after the for loop: scale in_color and return emit + diffuse * in_color
TraceFinish ==
    /\ t_stack # <<>> /\ Top.at = "loop"
    /\ Top.i = SAMPLES_PER_BOUNCE
    /\ Return(shade(get_material(t_objects[Unwrap(Top.hit)[2]]), Top.in_color),
              TRUE, TRUE)

TraceNext ==
    \/ TraceCast
    \/ TraceFloor
    \/ TraceMiss
    \/ TraceHit
    \/ TraceSample
    \/ TraceFinish

-----------------------------------------------------------------------------
(* Exact fractions <<n, d>>, d > 0, in lowest terms: the accumulator's      *)
(* arithmetic with the rounding of f32 left out                             *)

RECURSIVE GCD(_, _)
GCD(a, b) == IF b = 0 THEN a ELSE GCD(b, a % b)

Frac(n, d) ==
    LET g == GCD(Abs(n), Abs(d))
        sgn == IF d < 0 THEN -1 ELSE 1
    IN  IF n = 0 THEN <<0, 1>> ELSE <<sgn * (n \div g), sgn * (d \div g)>>
FrZero == <<0, 1>>
FrInt(k) == <<k, 1>>
FrAdd(a, b) == Frac(a[1] * b[2] + b[1] * a[2], a[2] * b[2])
FrSub(a, b) == Frac(a[1] * b[2] - b[1] * a[2], a[2] * b[2])
FrDivInt(a, k) == Frac(a[1], a[2] * k)

-----------------------------------------------------------------------------
(* Spec: the frame loop of main().  One colour channel stands for the three *)
(* of a Vector3: the accumulation treats them alike.                        *)

\* most cells of a surface (width * height)
MaxCells == 4
\* most events in the queue at the top of one frame
MaxEvents == 2
\* frames the loop may start
MaxFrames == 2

Sizes == {<<w, h>> \in (1..MaxCells) \X (1..MaxCells) : w * h <= MaxCells}

Close == [type |-> "Close"]
Resize(size) == [type |-> "Resize", size |-> size]
Other == [type |-> "Other"]
Events == {Close, Other} \cup {Resize(size) : size \in Sizes}

\* what the SAMPLES_PER_BOUNCE calls of ray_trace of one unit of work may
\* return (they depend on the thread's rng)
SampleRuns == {<<0, 0>>, <<0, 1>>}

\* the movement keys that may be held during one update, and the frame time
KeySets == {{}, {"E"}, {"W", "S", "A", "D", "Q"}}
FrameTimes == {16}

\* vec![Vector3::zero(); width * height]
zero_pixels(size) == [i \in 1..(size[1] * size[2]) |-> FrZero]

LoopInit ==
    /\ pc = "events"
    /\ surface_size \in Sizes
    /\ pixels = zero_pixels(surface_size)
    /\ frames_since_movement = 0
    /\ camera_position = main_camera_position
    /\ objects = main_objects
    /\ units = {}
    /\ done = {}
    /\ presented = None
    /\ frame = 0
    /\ h_estimates = <<>>
    /\ h_access = <<>>
    /\ h_changed = FALSE
    /\ h_prev = 0
    /\ h_polled = 0

\* one turn of `for event in renderer.get_surface_mut().events()`: a Resize
\* event or an event the loop ignores
HandleEvent ==
    /\ pc = "events"
    /\ h_polled < MaxEvents
    /\ \E event \in Events \ {Close} :
          IF event.type = "Resize"
          THEN /\ surface_size' = event.size
               /\ pixels' = zero_pixels(event.size)
               /\ frames_since_movement' = 0
               /\ h_changed' = TRUE
          ELSE UNCHANGED <<surface_size, pixels, frames_since_movement, h_changed>>
    /\ h_polled' = h_polled + 1
    /\ UNCHANGED <<pc, camera_position, objects, units, done, presented, frame,
                   h_estimates, h_access, h_prev, probe_vars, trace_vars>>

\* one turn of the for loop: SurfaceEvent::Close => break 'main_loop
HandleClose ==
    /\ pc = "events"
    /\ h_polled < MaxEvents
    /\ pc' = "closed"
    /\ h_polled' = h_polled + 1
    /\ UNCHANGED <<surface_size, pixels, frames_since_movement, camera_position,
                   objects, units, done, presented, frame, h_estimates, h_access,
                   h_changed, h_prev, probe_vars, trace_vars>>

\* the events are exhausted: on to the update
EventsDone ==
    /\ pc = "events"
    /\ frame < MaxFrames
    /\ pc' = "update"
    /\ h_polled' = 0
    /\ UNCHANGED <<surface_size, pixels, frames_since_movement, camera_position,
                   objects, units, done, presented, frame, h_estimates, h_access,
                   h_changed, h_prev, probe_vars, trace_vars>>

\* the six key tests of the update, leaving the last one out
moved_without_E(keys) == keys \cap {"W", "S", "A", "D", "Q"} # {}

\* the flag `moved` after the six key tests
moved(keys) == keys \cap {"W", "S", "A", "D", "Q", "E"} # {}

\* camera_position after the six key tests
move_camera(position, keys, dt) ==
    LET step(p, key, v) == IF key \in keys THEN VAdd(p, VScale(v, dt)) ELSE p
        p1 == step(position, "W", camera_forward)
        p2 == IF "S" \in keys THEN VSub(p1, VScale(camera_forward, dt)) ELSE p1
        p3 == IF "A" \in keys THEN VSub(p2, VScale(camera_right, dt)) ELSE p2
        p4 == step(p3, "D", camera_right)
        p5 == IF "Q" \in keys THEN VSub(p4, VScale(camera_up, dt)) ELSE p4
    IN  step(p5, "E", camera_up)

\* // Update
Update ==
    /\ pc = "update"
    /\ \E keys \in KeySets, dt \in FrameTimes :
          /\ camera_position' = move_camera(camera_position, keys, dt)
          /\ frames_since_movement' = IF moved(keys) THEN 0 ELSE frames_since_movement
          /\ h_changed' = (h_changed \/ keys # {})
    /\ pc' = "trace_begin"
    /\ UNCHANGED <<surface_size, pixels, objects, units, done, presented, frame,
                   h_estimates, h_access, h_prev, h_polled, probe_vars, trace_vars>>

\* chunks of `chunk` cells, each enumerated: a unit of work per cell of a chunk
chunk_units(len, chunk) ==
    {[x |-> x, y |-> y, cell |-> y * chunk + x + 1] :
        <<x, y>> \in {q \in (0..(chunk - 1)) \X (0..((len + chunk - 1) \div chunk - 1)) :
                         q[2] * chunk + q[1] < len}}

\* the rows cut at the height instead of the width
work_units_by_height(len, width, height) == chunk_units(len, height)

\* pixels.par_chunks_mut(width).enumerate().flat_map(row.par_iter_mut().enumerate()):
\* the units (x, y, pixel) handed to for_each
work_units(len, width, height) == chunk_units(len, width)

\* // Ray trace stuff, up to the call of for_each
TraceBegin ==
    /\ pc = "trace_begin"
    /\ pixels' = IF frames_since_movement = 0
                 THEN [i \in 1..Len(pixels) |-> FrZero] ELSE pixels
    /\ units' = work_units(Len(pixels), surface_size[1], surface_size[2])
    /\ done' = {}
    /\ h_estimates' = IF frames_since_movement = 0
                      THEN [i \in 1..Len(pixels) |-> [sum |-> FrZero, n |-> 0]]
                      ELSE h_estimates
    /\ h_access' = [i \in 1..Len(pixels) |-> <<>>]
    /\ pc' = "trace"
    /\ UNCHANGED <<surface_size, frames_since_movement, camera_position, objects,
                   presented, frame, h_changed, h_prev, h_polled, probe_vars,
                   trace_vars>>

\* the unit's estimate: the mean of SAMPLES_PER_BOUNCE calls of ray_trace
sample_mean(samples) ==
    LET sum[k \in 0..SAMPLES_PER_BOUNCE] ==
            IF k = 0 THEN FrZero ELSE FrAdd(sum[k - 1], FrInt(samples[k]))
    IN  FrDivInt(sum[SAMPLES_PER_BOUNCE], SAMPLES_PER_BOUNCE)

\* a blend with a fixed weight of one half
accumulate_half(pixel, color, count) == FrAdd(pixel, FrDivInt(FrSub(color, pixel), 2))

\* *pixel += (color - *pixel) / (frames_since_movement as f32 + 1.0)
accumulate(pixel, color, count) ==
    FrAdd(pixel, FrDivInt(FrSub(color, pixel), count + 1))

\* one unit of work of for_each: the closure, run on (x, y, pixel)
PixelWork ==
    /\ pc = "trace"
    /\ \E u \in units \ done, samples \in SampleRuns :
          LET color == sample_mean(samples)
          IN  /\ pixels' = [pixels EXCEPT ![u.cell] =
                                accumulate(@, color, frames_since_movement)]
              /\ done' = done \cup {u}
              /\ h_estimates' = [h_estimates EXCEPT ![u.cell] =
                                    [sum |-> FrAdd(@.sum, color), n |-> @.n + 1]]
              /\ h_access' = [h_access EXCEPT ![u.cell] = Append(@, u)]
    /\ UNCHANGED <<pc, surface_size, frames_since_movement, camera_position, objects,
                   units, presented, frame, h_changed, h_prev, h_polled, probe_vars,
                   trace_vars>>

\* a for_each that returns as soon as one unit has finished
join_any(all, finished) == finished # {}

\* for_each returns: every unit it was given has finished
join(all, finished) == finished = all

\* // Render to window: set_pixels, draw, present
RenderToWindow ==
    /\ pc = "trace"
    /\ join(units, done)
    /\ presented' = Some([cells |-> Len(pixels), finished |-> Cardinality(done)])
    /\ pc' = "end"
    /\ UNCHANGED <<surface_size, pixels, frames_since_movement, camera_position,
                   objects, units, done, frame, h_estimates, h_access, h_changed,
                   h_prev, h_polled, probe_vars, trace_vars>>

\* frames_since_movement += 1, and back to the top of the loop
EndFrame ==
    /\ pc = "end"
    /\ frames_since_movement' = frames_since_movement + 1
    /\ frame' = frame + 1
    /\ h_prev' = frames_since_movement
    /\ h_changed' = FALSE
    /\ pc' = "events"
    /\ UNCHANGED <<surface_size, pixels, camera_position, objects, units, done,
                   presented, h_estimates, h_access, h_polled, probe_vars, trace_vars>>

Next ==
    \/ HandleEvent
    \/ HandleClose
    \/ EventsDone
    \/ Update
    \/ TraceBegin
    \/ PixelWork
    \/ RenderToWindow
    \/ EndFrame

LoopParked ==
    /\ pc = "parked" /\ surface_size = <<0, 0>> /\ pixels = <<>>
    /\ frames_since_movement = 0 /\ camera_position = Zero /\ objects = <<>>
    /\ units = {} /\ done = {} /\ presented = None /\ frame = 0
    /\ h_estimates = <<>> /\ h_access = <<>> /\ h_changed = FALSE /\ h_prev = 0
    /\ h_polled = 0

-----------------------------------------------------------------------------
(* The specifications *)

Init == LoopInit /\ ProbeParked /\ TraceParked
Spec == Init /\ [][Next]_vars

InitTrace == TraceInit /\ ProbeParked /\ LoopParked
SpecTrace == InitTrace /\ [][TraceNext]_vars

InitProbe == ProbeInit /\ TraceParked /\ LoopParked
SpecProbe == InitProbe /\ [][ProbeNext]_vars

-----------------------------------------------------------------------------
(* Claims about intersect and get_closest_object (SpecProbe) *)

\* the objects of the probed slice that the probed ray hits
ProbeHits == {i \in 1..Len(p_objects) : IsSome(intersect(p_objects[i], p_ray))}
ProbeDistance(i) == Unwrap(intersect(p_objects[i], p_ray)).distance
\* those of them at the smallest distance
ProbeNearest == {i \in ProbeHits : \A j \in ProbeHits : ProbeDistance(i) <= ProbeDistance(j)}
ProbeClosestDone == p_op \in {"closest", "closest_main"}
SetMin(S) == CHOOSE a \in S : \A b \in S : a <= b
SetMax(S) == CHOOSE a \in S : \A b \in S : a >= b

\* C3 as stated: when several objects are hit at the same, smallest distance,
\* get_closest_object returns the one that comes first in the slice.
C3_FirstWins ==
    (ProbeClosestDone /\ Cardinality(ProbeNearest) >= 2)
        => (IsSome(p_result) /\ Unwrap(p_result)[2] = SetMin(ProbeNearest))

\* C3 amended: when several objects are hit at the same, smallest distance,
\* get_closest_object (both copies) returns the hit and index of the one that
\* comes LAST in the slice: the accumulator survives only a strictly smaller
\* distance.
C3_LastWins ==
    (ProbeClosestDone /\ Cardinality(ProbeNearest) >= 2)
        => /\ IsSome(p_result)
           /\ Unwrap(p_result)[2] = SetMax(ProbeNearest)
           /\ Unwrap(p_result)[1] = Unwrap(intersect(p_objects[SetMax(ProbeNearest)], p_ray))

\* two different objects tie at the smallest distance and the later one came back
C3_Witness ==
    /\ p_op = "closest"
    /\ Cardinality(ProbeNearest) >= 2
    /\ \E i \in ProbeNearest, j \in ProbeNearest : i < j /\ p_objects[i] # p_objects[j]
    /\ IsSome(p_result) /\ Unwrap(p_result)[2] = SetMax(ProbeNearest)

\* C4: get_closest_object returns None exactly when no object is hit; otherwise
\* it returns (hit, index) with hit = objects[index].intersect(ray) and
\* hit.distance <= the distance of every object's hit.
C4_Nearest ==
    ProbeClosestDone
        => /\ (p_result = None) <=> (ProbeHits = {})
           /\ IsSome(p_result) =>
                LET hit == Unwrap(p_result)[1]
                    index == Unwrap(p_result)[2]
                IN  /\ index \in ProbeHits
                    /\ hit = Unwrap(intersect(p_objects[index], p_ray))
                    /\ \A j \in ProbeHits : hit.distance <= ProbeDistance(j)

\* two objects are hit at different distances, the nearer one later in the
\* slice, and it is the one returned
C4_Witness ==
    /\ p_op = "closest"
    /\ IsSome(p_result)
    /\ \E i \in ProbeHits, j \in ProbeHits :
          /\ i < j /\ ProbeDistance(j) < ProbeDistance(i)
          /\ ProbeNearest = {j}
          /\ Unwrap(p_result)[2] = j

\* C10: a Plane is never hit by a ray whose direction has a non-negative dot
\* product with its normal, wherever the ray starts; and a hit on a Plane has
\* a strictly positive distance and the plane's stored normal.
C10_PlaneOneSided ==
    (p_op = "intersect" /\ p_objects[p_index].kind = "Plane")
        => /\ dot(p_objects[p_index].normal, p_ray.direction) >= 0 => p_result = None
           /\ IsSome(p_result) =>
                /\ Unwrap(p_result).distance > 0
                /\ Unwrap(p_result).normal = p_objects[p_index].normal

\* a ray that starts behind a plane and runs towards it (so the plane's surface
\* lies ahead of it) was intersected with the plane and missed
C10_Witness ==
    /\ p_op = "intersect"
    /\ p_objects[p_index].kind = "Plane"
    /\ dot(p_objects[p_index].normal, p_ray.direction) > 0
    /\ dot(p_objects[p_index].normal, p_ray.origin)
         + p_objects[p_index].distance_along_normal < 0
    /\ p_result = None

-----------------------------------------------------------------------------
(* Claims about ray_trace and the camera rays (SpecTrace) *)

\* direction . direction = 1, to within the rounding of the grid
IsUnit(direction) == Abs(sqr_length(direction) - Scale) <= 2

\* C5 as stated: every ray handed to ray_trace (and by it to intersect), the
\* primary ray and every bounce ray, has a direction of length 1.
C5_AllUnit == \A k \in 1..Len(t_stack) : IsUnit(t_stack[k].ray.direction)

\* C5 amended: every PRIMARY ray, built from the camera basis by
\* Camera::get_ray or by the frame loop's own construction, has a direction
\* of length 1; a bounce ray's direction is the blend
\* random*(1-reflectiveness) + mirror*reflectiveness as it stands, which is
\* not normalised and in general not of length 1.
C5_PrimaryUnit == t_stack # <<>> => IsUnit(t_stack[1].ray.direction)

\* a unit primary ray has hit and the bounce ray built from it is not unit
C5_Witness ==
    /\ Len(t_stack) >= 2
    /\ IsUnit(t_stack[1].ray.direction)
    /\ ~IsUnit(t_stack[2].ray.direction)

\* C6 as stated: against an empty object set ray_trace returns the background
\* constant (0.1, 0.1, 0.1), whatever the ray and the depth, in the library
\* and in the integrator the frame loop calls.
C6_EmptyIsBackground ==
    (t_objects = <<>> /\ IsSome(t_result)) => Unwrap(t_result) = Vec(100, 100, 100)

\* C6 amended: against an empty object set, a call with depth 0 returns zero;
\* with depth >= 1 the library's ray_trace returns exactly (0.1, 0.1, 0.1)
\* whatever the ray, and the copy the frame loop calls returns the sky
\* gradient (1,1,1)*(1-t) + (0.5,0.7,1)*t with t = 0.5*direction.y + 0.5,
\* which depends on the ray.
C6_EmptyByDepthAndCopy ==
    (t_variant \in {"lib", "main"} /\ t_objects = <<>> /\ IsSome(t_result))
        => LET value == Unwrap(t_result)
               direction == Unwrap(t_last).ray.direction
               t == FMul(direction[2], 500) + 500
           IN  /\ t_depth = 0 => value = Zero
               /\ (t_depth >= 1 /\ t_variant = "lib") => value = Vec(100, 100, 100)
               /\ (t_depth >= 1 /\ t_variant = "main") =>
                     value = VAdd(VScale(Vec(1000, 1000, 1000), Scale - t),
                                  VScale(Vec(500, 700, 1000), t))

\* the library's ray_trace has returned the constant for an empty set
C6_Witness ==
    /\ t_variant = "lib" /\ t_objects = <<>> /\ t_depth >= 1
    /\ t_result = Some(Vec(100, 100, 100))

RECURSIVE Power(_, _)
Power(b, e) == IF e = 0 THEN 1 ELSE b * Power(b, e - 1)

RECURSIVE CallBound(_)
\* calls of a full tree of depth d: 1 + SAMPLES_PER_BOUNCE + ... + SAMPLES_PER_BOUNCE^d
CallBound(d) == IF d = 0 THEN 1 ELSE Power(SAMPLES_PER_BOUNCE, d) + CallBound(d - 1)

\* some step of ray_trace is possible: the call has not been made yet, or the
\* innermost activation is at its entry (depth 0, a miss or a hit: one of the
\* three applies) or in its loop (another sample, or the end of the loop)
TraceCanStep ==
    \/ t_calls = 0
    \/ /\ t_stack # <<>>
       /\ \/ Top.at = "entry" /\ Top.depth = 0
          \/ Top.at = "entry" /\ Top.depth # 0 /\ ClosestOf(Top.ray) = None
          \/ Top.at = "entry" /\ Top.depth # 0 /\ IsSome(ClosestOf(Top.ray))
          \/ Top.at = "loop" /\ Top.i < SAMPLES_PER_BOUNCE
          \/ Top.at = "loop" /\ Top.i = SAMPLES_PER_BOUNCE

\* C9: ray_trace terminates.  A call with depth 0 returns zero without
\* intersecting or recursing; every recursive call has depth - 1; a call that
\* hits makes exactly SAMPLES_PER_BOUNCE recursive calls and one that misses
\* none; a primary call of depth d has at most SAMPLES_PER_BOUNCE^d leaf
\* calls (at most 32 up to the default depth BOUNCES); and a call that has not returned can always take its next step.
C9_Terminates ==
    /\ t_stack # <<>> => t_stack[1].depth = t_depth
    /\ \A k \in 1..(Len(t_stack) - 1) : t_stack[k + 1].depth = t_stack[k].depth - 1
    /\ \A k \in 1..Len(t_stack) : t_stack[k].children <= SAMPLES_PER_BOUNCE
    /\ IsSome(t_last) =>
          LET r == Unwrap(t_last)
          IN  /\ r.depth = 0 => (r.value = Zero /\ ~r.intersected /\ r.children = 0)
              /\ r.hit => r.children = SAMPLES_PER_BOUNCE
              /\ ~r.hit => r.children = 0
    /\ t_leaves <= Power(SAMPLES_PER_BOUNCE, t_depth)
    /\ t_depth <= BOUNCES => t_leaves <= 32
    /\ t_calls <= CallBound(t_depth)
    /\ (t_variant \in {"lib", "main"} /\ t_result = None) => TraceCanStep

\* a primary call of the largest depth has returned after a full tree of calls:
\* SAMPLES_PER_BOUNCE^depth leaves
C9_Witness ==
    /\ t_depth = MaxDepth
    /\ IsSome(t_result)
    /\ t_leaves = Power(SAMPLES_PER_BOUNCE, t_depth)
    /\ Unwrap(t_last).hit /\ Unwrap(t_last).children = SAMPLES_PER_BOUNCE

-----------------------------------------------------------------------------
(* Claims about the frame loop (Spec) *)

\* C1: at the end of every rendered frame, each accumulator cell is the
\* arithmetic mean of the cell's per-frame estimates over exactly the frames
\* since and including the last reset frame (the frame traced with
\* frames_since_movement = 0); nothing older contributes.
C1_RunningMean ==
    pc = "end" =>
        /\ Len(h_estimates) = Len(pixels)
        /\ \A cell \in 1..Len(pixels) :
              /\ h_estimates[cell].n = frames_since_movement + 1
              /\ pixels[cell] = FrDivInt(h_estimates[cell].sum, h_estimates[cell].n)

\* a second frame since the reset has ended, and a cell holds the mean 1/4 of
\* the estimates 0 and 1/2 (in either order)
C1_Witness ==
    /\ pc = "end"
    /\ frames_since_movement = 1
    /\ \E cell \in 1..Len(pixels) :
          /\ h_estimates[cell] = [sum |-> <<1, 2>>, n |-> 2]
          /\ pixels[cell] = <<1, 4>>

\* C2: frames_since_movement is 0 after a pre-frame phase in which the surface
\* was resized or the camera was moved, it is incremented by exactly 1 at the
\* end of every rendered frame, reset frames included; so in a frame's trace
\* phase it is 0 after such a change and otherwise one more than it was in the
\* previous frame's trace phase.  (The scene of main() never gains an object.)
C2_Counter ==
    /\ (pc \in {"events", "update", "trace_begin", "trace", "end"} /\ h_changed)
          => frames_since_movement = 0
    /\ (pc \in {"events", "update", "trace_begin", "trace", "end"} /\ ~h_changed)
          => frames_since_movement = (IF frame = 0 THEN 0 ELSE h_prev + 1)
    /\ pc # "parked" => objects = main_objects

\* the frame after a reset frame is being traced, nothing having changed: the
\* counter went from 0 to 1
C2_Witness ==
    /\ pc = "trace"
    /\ frame >= 1
    /\ ~h_changed
    /\ h_prev = 0
    /\ frames_since_movement = 1

\* the unit of work that owns a cell
UnitsOf(cell) == {u \in units : u.cell = cell}

\* C7: in the trace phase the width*height cells of the accumulator are
\* partitioned one cell per unit of work: each cell belongs to exactly one
\* unit, is touched by that unit only and only once in the frame, and the
\* unit's (x, y) are the cell's column and row, x < width and y < height.
C7_Partition ==
    pc \in {"trace", "end"} =>
        LET width == surface_size[1]
            height == surface_size[2]
        IN  /\ Len(pixels) = width * height
            /\ Len(h_access) = Len(pixels)
            /\ \A u \in units :
                  /\ u.x >= 0 /\ u.x < width
                  /\ u.y >= 0 /\ u.y < height
                  /\ u.cell = u.y * width + u.x + 1
            /\ \A cell \in 1..Len(pixels) :
                  /\ Cardinality(UnitsOf(cell)) = 1
                  /\ Len(h_access[cell]) <= 1
                  /\ \A k \in 1..Len(h_access[cell]) : h_access[cell][k] \in UnitsOf(cell)
                  /\ (Len(h_access[cell]) = 1) <=> (UnitsOf(cell) \subseteq done)
                  /\ pc = "end" => Len(h_access[cell]) = 1

\* a 2 x 2 surface in the middle of its trace phase: two units have run, in
\* different rows, and two have not
C7_Witness ==
    /\ pc = "trace"
    /\ surface_size = <<2, 2>>
    /\ Cardinality(done) = 2
    /\ \E u \in done, v \in done : u.y # v.y /\ u.x # v.x
    /\ \A cell \in 1..Len(pixels) : Len(h_access[cell]) = Cardinality(UnitsOf(cell) \cap done)

\* what set_pixels is given when every cell has this frame's estimate
FullBuffer == Some([cells |-> Len(pixels), finished |-> Len(pixels)])

\* C8: no partly computed frame is presented or counted.  The buffer is handed
\* to the display, and frames_since_movement incremented, only after every
\* unit of work of the frame has finished; camera and scene do not change
\* during the trace phase; and the loop is left (Close) only from its top.
C8_NoPartialFrame ==
    [][ /\ (pc = "trace" /\ pc' # "trace")
              => (done = units /\ pc' = "end" /\ presented' = FullBuffer)
        /\ presented' # presented => (pc = "trace" /\ done = units)
        /\ frames_since_movement' = frames_since_movement + 1
              => (pc = "end" /\ done = units /\ presented = FullBuffer)
        /\ pc \in {"trace_begin", "trace"}
              => (camera_position' = camera_position /\ objects' = objects
                  /\ frames_since_movement' = frames_since_movement
                  /\ surface_size' = surface_size)
        /\ (pc' = "closed" /\ pc # "closed") => pc = "events"
      ]_vars

\* a frame of several cells has been presented whole, after a frame before it
C8_Witness ==
    /\ pc = "end"
    /\ frame >= 1
    /\ Cardinality(units) >= 2
    /\ done = units
    /\ presented = FullBuffer

=============================================================================
